---- MODULE Spec2Model ----
(***************************************************************************)
(* FugueText (src/core/src/crdt/text_fugue): the RLE Fugue text CRDT.      *)
(*                                                                         *)
(* Every replica owns one FugueText engine: a rope (the visible string),   *)
(* a BTreeMap of blocks keyed by NodeId, a Lamport clock and the position  *)
(* cache. Replicas edit locally (insert, delete), hand out anchors         *)
(* (get_node_id_at_position, get_position_of_node_id) and exchange state   *)
(* by merge.                                                               *)
(*                                                                         *)
(* Text. A string is a sequence of chars (Unicode scalar values). A char   *)
(* is <<client, clock, j>>: the j-th char of the grapheme that the insert  *)
(* of `client` gave the clock `clock`. j = 1 is a base char of one UTF-8   *)
(* byte, j = 2 a combining mark of two UTF-8 bytes (U+0301) that extends   *)
(* the grapheme of the char before it. All graphemes typed are distinct,   *)
(* so equality of two strings is equality of what is shown, and the place  *)
(* of a character in a string is well defined.                             *)
(***************************************************************************)
EXTENDS Integers, Sequences, FiniteSets, TLC

\* ------------------------------------------------------------------ bounds
NumReplicas == 2       \* replicas 1..NumReplicas; client ids compare as numbers
MaxIns      == 2       \* longest plain text of one insert, in graphemes
MaxInserts  == 2       \* successful or failed insert calls in one run
MaxDeletes  == 1       \* delete calls in one run
MaxMerges   == 3       \* merge calls in one run
MaxQueries  == 1       \* get_node_id_at_position calls in one run with anchors
MaxAnchorMerges == 1   \* merge calls in one run with anchors
MaxThreeMerges == 1    \* merge calls in one run of three replicas
MaxReloads  == 1       \* serialize-then-deserialize round trips in one run
MaxRun      == 3       \* inserts of one typed run
MaxPaste    == 3       \* graphemes of the longest text pasted at once
MaxSplitDeletes == 2   \* deletes in a run that pastes and splits
MaxSplitMerges == 1    \* merges in such a run
MaxSeeds    == 1       \* inserts that build the text two typists start from
MaxShares   == 2       \* merges that hand that text to the typists
MaxExchanges == 2      \* merges between the typists after their runs
MaxCounterOps == 3     \* increment, decrement and reset calls in one run
MaxCounterMerges == 2  \* PNCounter merge calls in one run
MaxAwarenessCalls == 3 \* calls on the Awareness instance in one run
ClockBits   == 3       \* width of the u64 of the awareness clock, scaled down
NumThreads  == 2       \* threads that share one IncreasingClock
MaxThreadCalls == 2    \* calls each thread makes on the shared clock
MaxLamportCalls == 3   \* calls made on one LamportClock
MaxTick     == 2       \* largest count passed to tick_by

Replicas == 1..NumReplicas

\* ------------------------------------------------------------ Option<T>
None    == <<>>
Some(x) == <<x>>
IsSome(o) == o # <<>>
Unwrap(o) == o[1]

Max(a, b) == IF a >= b THEN a ELSE b
Min(a, b) == IF a <= b THEN a ELSE b

\* u64::saturating_sub
saturating_sub(a, b) == IF a >= b THEN a - b ELSE 0

\* usize::MAX, the "invalid until computed" value of cached_start_pos
USIZE_MAX == -1

\* ------------------------------------------------------------------ text
IsMark(ch) == ch[3] = 2

\* str::len of one char in UTF-8
len_utf8(ch) == IF IsMark(ch) THEN 2 ELSE 1

\* text.graphemes(true): extended grapheme clusters. A combining mark
\* extends the cluster of the char before it; at the start of the string it
\* is a cluster of its own.
RECURSIVE ClusterStart(_, _)
ClusterStart(s, i) == IF i = 1 \/ ~IsMark(s[i]) THEN i ELSE ClusterStart(s, i - 1)

RECURSIVE graphemes(_)
graphemes(s) ==
    IF s = <<>> THEN <<>>
    ELSE Append(graphemes(SubSeq(s, 1, ClusterStart(s, Len(s)) - 1)),
                SubSeq(s, ClusterStart(s, Len(s)), Len(s)))

\* graphemes[a..b].join(""), 0-based half-open range of clusters
RECURSIVE join(_)
join(gs) == IF gs = <<>> THEN <<>> ELSE Head(gs) \o join(Tail(gs))

\* the text the user types: kinds[i] = "a" is a one-char grapheme, "c" is a
\* base char followed by a combining mark; the i-th grapheme is the one that
\* gets clock c + i
RECURSIVE MkText(_, _, _)
MkText(client, c, kinds) ==
    IF kinds = <<>> THEN <<>>
    ELSE (IF Head(kinds) = "a" THEN << <<client, c + 1, 1>> >>
          ELSE << <<client, c + 1, 1>>, <<client, c + 1, 2>> >>)
         \o MkText(client, c + 1, Tail(kinds))

\* the texts an insert is called with: "", "a", "aa", ... and one combining
Texts == { [i \in 1..k |-> "a"] : k \in 0..MaxIns } \cup { <<"c">> }

\* ---------------------------------------------------------------- NodeId
NodeId(client_id, clock, offset) ==
    [client_id |-> client_id, clock |-> clock, offset |-> offset]

\* impl Ord for NodeId: clock, then client_id, then offset
NodeIdLess(a, b) ==
    \/ a.clock < b.clock
    \/ a.clock = b.clock /\ a.client_id < b.client_id
    \/ a.clock = b.clock /\ a.client_id = b.client_id /\ a.offset < b.offset

\* iteration order of a BTreeMap<NodeId, _> / Vec<NodeId>::sort
RECURSIVE SortIds(_)
SortIds(S) ==
    IF S = {} THEN <<>>
    ELSE LET m == CHOOSE x \in S : \A y \in S : x = y \/ NodeIdLess(x, y)
         IN  <<m>> \o SortIds(S \ {m})

\* ------------------------------------------------------------ FugueBlock
FugueBlock_new(text, left_origin, right_origin) ==
    [text |-> text, left_origin |-> left_origin, right_origin |-> right_origin,
     deleted |-> FALSE, cached_start_pos |-> USIZE_MAX]

\* FugueBlock::len: grapheme clusters of the text
BlockLen(block) == Len(graphemes(block.text))

mark_deleted(block) == [block EXCEPT !.deleted = TRUE]

\* id.clock.saturating_sub(block_len - 1): the first clock of the range a
\* block owns (id.clock is the last one). For an empty block `block_len - 1`
\* overflows: a build that wraps gets u64::MAX and the result 0 (a build
\* that checks overflow panics there, see SubOverflows)
StartClock(id, block) ==
    IF BlockLen(block) = 0 THEN 0
    ELSE saturating_sub(id.clock, BlockLen(block) - 1)

\* `block_len - 1` overflows
SubOverflows(block) == BlockLen(block) = 0

\* BTreeMap::insert: add or replace
MapInsert(blocks, id, block) ==
    [k \in DOMAIN blocks \cup {id} |-> IF k = id THEN block ELSE blocks[k]]

MapRemove(blocks, id) == [k \in DOMAIN blocks \ {id} |-> blocks[k]]

\* ------------------------------------------------------ document order
find_block_for_nodeid(blocks, node_id) ==
    LET hit(bid) == /\ bid.client_id = node_id.client_id
                    /\ BlockLen(blocks[bid]) # 0
                    /\ node_id.clock >= StartClock(bid, blocks[bid])
                    /\ node_id.clock <= bid.clock
        hits == {bid \in DOMAIN blocks : hit(bid)}
    IN  IF hits = {} THEN None
        ELSE Some(CHOOSE x \in hits : \A y \in hits : x = y \/ NodeIdLess(x, y))

\* Option::and_then(|node_id| self.find_block_for_nodeid(node_id))
OriginBlock(blocks, origin) ==
    IF IsSome(origin) THEN find_block_for_nodeid(blocks, Unwrap(origin)) ELSE None

\* the walk up from b. `fuel` bounds the walk by the size of the tree: the
\* parent chains of the trees built here have no cycle, so it never runs out
RECURSIVE AncestorWalk(_, _, _, _)
AncestorWalk(a, current, tree, fuel) ==
    IF ~IsSome(current) THEN FALSE
    ELSE IF Unwrap(current) = a THEN TRUE
    ELSE IF fuel = 0 THEN FALSE
    ELSE AncestorWalk(a,
                      IF Unwrap(current) \in DOMAIN tree
                      THEN tree[Unwrap(current)].parent ELSE None,
                      tree, fuel - 1)

\* an ancestor check that only looks at the parent of b
is_ancestor_one_step(a, b, tree) ==
    b \in DOMAIN tree /\ tree[b].parent = Some(a)

is_ancestor_in_tree(a, b, tree) ==
    AncestorWalk(a, Some(b), tree, Cardinality(DOMAIN tree) + 1)

\* determine_parent_and_side that hangs a block with only a left origin
\* under the root
determine_parent_drops_left(left_origin, right_origin, tree) ==
    IF ~IsSome(right_origin) THEN
        [parent |-> None, side |-> "Right"]
    ELSE IF ~IsSome(left_origin) THEN
        [parent |-> right_origin, side |-> "Left"]
    ELSE IF is_ancestor_in_tree(Unwrap(left_origin), Unwrap(right_origin), tree)
         THEN [parent |-> right_origin, side |-> "Left"]
         ELSE [parent |-> left_origin, side |-> "Right"]

determine_parent_and_side(left_origin, right_origin, tree) ==
    IF ~IsSome(left_origin) /\ ~IsSome(right_origin) THEN
        [parent |-> None, side |-> "Right"]
    ELSE IF ~IsSome(right_origin) THEN
        [parent |-> left_origin, side |-> "Right"]
    ELSE IF ~IsSome(left_origin) THEN
        [parent |-> right_origin, side |-> "Left"]
    ELSE IF is_ancestor_in_tree(Unwrap(left_origin), Unwrap(right_origin), tree)
         THEN [parent |-> right_origin, side |-> "Left"]
         ELSE [parent |-> left_origin, side |-> "Right"]

\* TreeNode { parent, side, deleted }
TreeNode(ps, deleted) == [parent |-> ps.parent, side |-> ps.side, deleted |-> deleted]

RECURSIVE BuildTree(_, _, _)
BuildTree(blocks, ids, tree) ==
    IF ids = <<>> THEN tree
    ELSE BuildTree(blocks, Tail(ids),
             MapInsert(tree, Head(ids),
                 TreeNode(determine_parent_and_side(
                              OriginBlock(blocks, blocks[Head(ids)].left_origin),
                              OriginBlock(blocks, blocks[Head(ids)].right_origin),
                              tree),
                          blocks[Head(ids)].deleted)))

reconstruct_fugue_tree(blocks) == BuildTree(blocks, SortIds(DOMAIN blocks), <<>>)

\* children that are looked up under visible nodes only
children_of_visible(tree, node_id, side) ==
    IF tree[node_id].deleted THEN <<>>
    ELSE SortIds({n \in DOMAIN tree : /\ tree[n].parent = Some(node_id)
                                      /\ tree[n].side = side})

\* the children of node_id on one side, sorted by NodeId
children(tree, node_id, side) ==
    SortIds({n \in DOMAIN tree : /\ tree[n].parent = Some(node_id)
                                 /\ tree[n].side = side})

RECURSIVE in_order_visit(_, _), VisitAll(_, _)
in_order_visit(node_id, tree) ==
    VisitAll(children(tree, node_id, "Left"), tree)
    \o (IF tree[node_id].deleted THEN <<>> ELSE <<node_id>>)
    \o VisitAll(children(tree, node_id, "Right"), tree)

VisitAll(ids, tree) ==
    IF ids = <<>> THEN <<>>
    ELSE in_order_visit(Head(ids), tree) \o VisitAll(Tail(ids), tree)

\* a traversal that starts from the smallest root only
in_order_traversal_one_root(tree) ==
    LET roots == SortIds({n \in DOMAIN tree : ~IsSome(tree[n].parent)})
    IN  IF roots = <<>> THEN <<>> ELSE in_order_visit(Head(roots), tree)

in_order_traversal(tree) ==
    VisitAll(SortIds({n \in DOMAIN tree : ~IsSome(tree[n].parent)}), tree)

get_document_order(blocks) == in_order_traversal(reconstruct_fugue_tree(blocks))

\* the text of the non-deleted blocks along a list of ids
RECURSIVE ConcatText(_, _)
ConcatText(blocks, ids) ==
    IF ids = <<>> THEN <<>>
    ELSE (IF Head(ids) \in DOMAIN blocks /\ ~blocks[Head(ids)].deleted
          THEN blocks[Head(ids)].text ELSE <<>>)
         \o ConcatText(blocks, Tail(ids))


\* ---------------------------------------------------------------- ropey
\* Rope::char_to_byte: the byte offset of the char with index char_pos
RECURSIVE rope_char_to_byte(_, _)
rope_char_to_byte(rope, char_pos) ==
    IF char_pos = 0 THEN 0
    ELSE rope_char_to_byte(rope, char_pos - 1) + len_utf8(rope[char_pos])

\* Rope::insert(char_idx, text) and Rope::remove(char_range) take CHAR
\* indices and panic when the index is past len_chars()
RopeInsertPanics(rope, char_idx) == char_idx > Len(rope)

RopeInsert(rope, char_idx, text) ==
    SubSeq(rope, 1, char_idx) \o text \o SubSeq(rope, char_idx + 1, Len(rope))

RopeRemovePanics(rope, start, end) == start > end \/ end > Len(rope)

RopeRemove(rope, start, end) ==
    SubSeq(rope, 1, start) \o SubSeq(rope, end + 1, Len(rope))

\* ------------------------------------------------------------- FugueText
\* FugueText::new
FugueText_new(client_id) ==
    [rope |-> <<>>, blocks |-> <<>>, clock |-> 0, client_id |-> client_id,
     cache_valid |-> TRUE, cached_blocks |-> <<>>]

\* FugueText::len: rope.len_chars(), the number of chars of the rope
len(e) == Len(e.rope)

to_string(e) == e.rope

\* LamportClock
\* tick_by that advances the clock by one whatever the count
tick_by_one(value, count) == value + 1

tick_by(value, count) == value + count

\* update that takes the remote value as it is
update_assign(value, remote) == remote

update(value, remote) == Max(value, remote)

\* FugueText::char_to_byte on a position that passed the bounds check
char_to_byte(e, char_pos) == rope_char_to_byte(e.rope, char_pos)

\* the loop of rebuild_position_cache over the document order
RECURSIVE CachePass(_, _, _, _)
CachePass(e, ids, current_pos, cached) ==
    IF ids = <<>> THEN [e EXCEPT !.cached_blocks = cached]
    ELSE IF Head(ids) \in DOMAIN e.blocks /\ ~e.blocks[Head(ids)].deleted
    THEN CachePass([e EXCEPT !.blocks[Head(ids)].cached_start_pos = current_pos],
                   Tail(ids), current_pos + BlockLen(e.blocks[Head(ids)]),
                   Append(cached, Head(ids)))
    ELSE CachePass(e, Tail(ids), current_pos, cached)

rebuild_position_cache(e) == CachePass(e, get_document_order(e.blocks), 0, <<>>)

\* a cache that is declared valid without being rebuilt
EnsureCache_flag_only(e) == [e EXCEPT !.cache_valid = TRUE]

\* if !self.cache_valid { self.rebuild_position_cache(); self.cache_valid = true; }
EnsureCache(e) ==
    IF e.cache_valid THEN e
    ELSE [rebuild_position_cache(e) EXCEPT !.cache_valid = TRUE]

\* cached_position().unwrap_or(0)
cached_position_or_0(block) ==
    IF block.cached_start_pos = USIZE_MAX THEN 0 ELSE block.cached_start_pos

\* slice::binary_search_by over cached_blocks with the comparator of
\* find_origins / get_node_id_at_position: Ok(idx) or Err(idx), 0-based
RECURSIVE BSearch(_, _, _, _)
BSearch(e, pos, left, right) ==
    IF left >= right THEN [found |-> FALSE, idx |-> left]
    ELSE LET mid == left + ((right - left) \div 2)
             block == e.blocks[e.cached_blocks[mid + 1]]
         IN  IF pos < cached_position_or_0(block) THEN BSearch(e, pos, left, mid)
             ELSE IF pos >= cached_position_or_0(block) + BlockLen(block)
             THEN BSearch(e, pos, mid + 1, right)
             ELSE [found |-> TRUE, idx |-> mid]

binary_search_by(e, pos) == BSearch(e, pos, 0, Len(e.cached_blocks))

\* first / last character of a block as a character-level NodeId
FirstChar(e, id) == NodeId(id.client_id, StartClock(id, e.blocks[id]), 0)

LastChar(id) == NodeId(id.client_id, id.clock, 0)

\* the match on search_result in find_origins
OriginsAt(e, grapheme_pos, sr) ==
    LET n == Len(e.cached_blocks)
        at(i) == e.cached_blocks[i + 1]
    IN  IF sr.found THEN
            LET id == at(sr.idx)
                block_start == e.blocks[id].cached_start_pos
                block_end == block_start + BlockLen(e.blocks[id])
                first == FirstChar(e, id)
                offset_in_block == grapheme_pos - block_start
            IN  IF grapheme_pos = block_start THEN
                    [left |-> IF sr.idx > 0 THEN Some(LastChar(at(sr.idx - 1)))
                              ELSE None,
                     right |-> Some(first),
                     overflow |-> FALSE]
                ELSE IF grapheme_pos = block_end THEN
                    [left |-> Some(LastChar(id)),
                     right |-> IF sr.idx + 1 < n
                               THEN Some(FirstChar(e, at(sr.idx + 1))) ELSE None,
                     overflow |-> /\ sr.idx + 1 < n
                                  /\ SubOverflows(e.blocks[at(sr.idx + 1)])]
                ELSE
                    [left |-> Some(NodeId(id.client_id,
                                          first.clock + offset_in_block - 1, 0)),
                     right |-> Some(NodeId(id.client_id,
                                           first.clock + offset_in_block, 0)),
                     overflow |-> FALSE]
        ELSE IF sr.idx = 0 THEN
            [left |-> None, right |-> Some(FirstChar(e, at(0))),
             overflow |-> SubOverflows(e.blocks[at(0)])]
        ELSE IF sr.idx >= n THEN
            [left |-> Some(LastChar(at(n - 1))), right |-> None,
             overflow |-> FALSE]
        ELSE
            [left |-> Some(LastChar(at(sr.idx - 1))),
             right |-> Some(FirstChar(e, at(sr.idx))),
             overflow |-> SubOverflows(e.blocks[at(sr.idx)])]

\* FugueText::find_origins on an engine whose cache has been ensured:
\* the two origins, and whether computing them overflowed
find_origins(e, grapheme_pos) ==
    IF e.cached_blocks = <<>>
    THEN [left |-> None, right |-> None, overflow |-> FALSE]
    ELSE OriginsAt(e, grapheme_pos, binary_search_by(e, grapheme_pos))

\* results: Ok(val) / Err(val). A panic ends the call; `wrapped` tells that
\* the call went on after an arithmetic overflow wrapped
Ok(v)  == [ok |-> TRUE, val |-> v]
Err(v) == [ok |-> FALSE, val |-> v]

Done(e, res)  == [e |-> e, res |-> res, panic |-> FALSE, wrapped |-> FALSE]
Panic(e)      == [e |-> e, res |-> Err("panic"), panic |-> TRUE,
                  wrapped |-> FALSE]

\* steps 3..9 of insert: e0 is the engine before the call, e the engine after
\* find_origins has ensured the cache, text the text typed; `checked` tells
\* that the build checks arithmetic overflow (a debug build)
InsertBlock(e0, e, position, text, origins, checked) ==
    LET timestamp == tick_by(e.clock, Len(graphemes(text)))
        id == NodeId(e.client_id, timestamp, 0)
        byte_pos == char_to_byte(e, position)
    IN  IF origins.overflow /\ checked THEN Panic(e0)
        ELSE IF RopeInsertPanics(e.rope, byte_pos) THEN Panic(e0)
        ELSE [Done([e EXCEPT !.clock = timestamp,
                             !.blocks = MapInsert(e.blocks, id,
                                 FugueBlock_new(text, origins.left, origins.right)),
                             !.rope = RopeInsert(e.rope, byte_pos, text),
                             !.cache_valid = FALSE],
                   Ok(id))
                 EXCEPT !.wrapped = origins.overflow]

InsertAt(e0, e, position, text, checked) ==
    InsertBlock(e0, e, position, text, find_origins(e, position), checked)

\* FugueText::insert(position, text); `kinds` stands for the text typed
\* insert that validates the position after it allocated the clocks
insert_validates_late(e, position, kinds, checked) ==
    IF position > len(e) THEN
        Done([e EXCEPT !.clock = tick_by(e.clock, Len(kinds))],
             Err([err |-> "PositionOutOfBounds", position |-> position,
                  length |-> len(e)]))
    ELSE InsertAt(e, EnsureCache(e), position,
                  MkText(e.client_id, e.clock, kinds), checked)

insert(e, position, kinds, checked) ==
    IF position > len(e) THEN
        Done(e, Err([err |-> "PositionOutOfBounds", position |-> position,
                     length |-> len(e)]))
    ELSE InsertAt(e, EnsureCache(e), position,
                  MkText(e.client_id, e.clock, kinds), checked)

\* split_block_for_deletion that removes the original block before it
\* validates the offsets
split_removes_first(st, orig_id, orig_block, offset_start, offset_end) ==
    IF \/ offset_start >= BlockLen(orig_block)
       \/ offset_end > BlockLen(orig_block)
       \/ offset_start >= offset_end
    THEN [st EXCEPT !.blocks = MapRemove(st.blocks, orig_id),
                    !.err = Some([err |-> "InvalidBlockSplit",
                                  block_id |-> orig_id,
                                  offset_start |-> offset_start,
                                  offset_end |-> offset_end,
                                  block_len |-> BlockLen(orig_block)])]
    ELSE st

\* FugueText::split_block_for_deletion. st = [blocks, deleted_ids, err]
split_block_for_deletion(st, orig_id, orig_block, offset_start, offset_end) ==
    LET gs == graphemes(orig_block.text)
        block_len == Len(gs)
        left_text == join(SubSeq(gs, 1, offset_start))
        middle_text == join(SubSeq(gs, offset_start + 1, offset_end))
        right_text == join(SubSeq(gs, offset_end + 1, block_len))
        block_start_clock == orig_id.clock - block_len + 1
        left_id == NodeId(orig_id.client_id, block_start_clock + offset_start - 1, 0)
        middle_id == NodeId(orig_id.client_id, block_start_clock + offset_end - 1, 0)
        right_id == NodeId(orig_id.client_id, block_start_clock + block_len - 1, 0)
        part(text) == FugueBlock_new(text, orig_block.left_origin,
                                     orig_block.right_origin)
        b0 == MapRemove(st.blocks, orig_id)
        b1 == IF left_text # <<>> THEN MapInsert(b0, left_id, part(left_text))
              ELSE b0
        b2 == MapInsert(b1, middle_id, mark_deleted(part(middle_text)))
        b3 == IF right_text # <<>> THEN MapInsert(b2, right_id, part(right_text))
              ELSE b2
    IN  IF \/ offset_start >= block_len
           \/ offset_end > block_len
           \/ offset_start >= offset_end
        THEN [st EXCEPT !.err = Some([err |-> "InvalidBlockSplit",
                                      block_id |-> orig_id,
                                      offset_start |-> offset_start,
                                      offset_end |-> offset_end,
                                      block_len |-> block_len])]
        ELSE IF orig_id \notin DOMAIN st.blocks THEN st
        ELSE [st EXCEPT !.blocks = b3,
                        !.deleted_ids = Append(st.deleted_ids, middle_id)]

\* first pass of delete: the blocks that overlap the range, found by walking
\* self.blocks (the BTreeMap, in NodeId order) and summing block lengths
RECURSIVE blocks_to_split(_, _, _, _, _)
blocks_to_split(blocks, ids, current_pos, position, length) ==
    IF ids = <<>> THEN <<>>
    ELSE LET id == Head(ids)
             block == blocks[id]
             block_len == BlockLen(block)
             block_start == current_pos
             block_end == current_pos + block_len
             delete_start == Max(position, block_start)
             delete_end == Min(position + length, block_end)
         IN  IF block.deleted
             THEN blocks_to_split(blocks, Tail(ids), current_pos, position, length)
             ELSE (IF block_start < position + length /\ block_end > position
                   THEN << [orig_id |-> id, orig_block |-> block,
                            offset_start |-> delete_start - block_start,
                            offset_end |-> delete_end - block_start] >>
                   ELSE <<>>)
                  \o blocks_to_split(blocks, Tail(ids), current_pos + block_len,
                                     position, length)

\* a second pass that tombstones the whole block whatever part of it the
\* range covers
SplitOne_whole(st, t) ==
    IF t.orig_id \in DOMAIN st.blocks
    THEN [st EXCEPT !.blocks[t.orig_id] = mark_deleted(@),
                    !.deleted_ids = Append(@, t.orig_id)]
    ELSE st

\* one round of the second pass of delete
SplitOne(st, t) ==
    IF t.offset_start > 0 \/ t.offset_end < BlockLen(t.orig_block)
    THEN split_block_for_deletion(st, t.orig_id, t.orig_block,
                                  t.offset_start, t.offset_end)
    ELSE IF t.orig_id \in DOMAIN st.blocks
    THEN [st EXCEPT !.blocks[t.orig_id] = mark_deleted(@),
                    !.deleted_ids = Append(@, t.orig_id)]
    ELSE st

\* second pass of delete; stops at the first error (the `?`)
RECURSIVE SplitPass(_, _)
SplitPass(st, todo) ==
    IF todo = <<>> \/ IsSome(st.err) THEN st
    ELSE SplitPass(SplitOne(st, Head(todo)), Tail(todo))

\* step 3 of delete: e0 is the engine before the call, st the second pass' result
DeleteFromRope(e0, st, position, length) ==
    LET byte_start == char_to_byte(e0, position)
        byte_end == char_to_byte(e0, position + length)
    IN  IF IsSome(st.err)
        THEN Done([e0 EXCEPT !.blocks = st.blocks], Err(Unwrap(st.err)))
        ELSE IF st.deleted_ids = <<>>
        THEN Done([e0 EXCEPT !.blocks = st.blocks], Ok(<<>>))
        ELSE IF RopeRemovePanics(e0.rope, byte_start, byte_end) THEN Panic(e0)
        ELSE Done([e0 EXCEPT !.blocks = st.blocks,
                             !.rope = RopeRemove(e0.rope, byte_start, byte_end),
                             !.cache_valid = FALSE],
                  Ok(st.deleted_ids))

\* FugueText::delete(position, length)
delete(e, position, length) ==
    IF position + length > len(e) THEN
        Done(e, Err([err |-> "RangeOutOfBounds", start |-> position,
                     end |-> position + length, length |-> len(e)]))
    ELSE DeleteFromRope(e,
             SplitPass([blocks |-> e.blocks, deleted_ids |-> <<>>, err |-> None],
                       blocks_to_split(e.blocks, SortIds(DOMAIN e.blocks), 0,
                                       position, length)),
             position, length)

\* FugueText::rebuild_rope
rebuild_rope(e) ==
    [e EXCEPT !.rope = ConcatText(e.blocks, get_document_order(e.blocks)),
              !.cache_valid = FALSE]

\* a merge whose remote copy of a block replaces the local one
merge_blocks_remote_wins(local, remote) ==
    [id \in DOMAIN local \cup DOMAIN remote |->
        IF id \in DOMAIN remote THEN remote[id] ELSE local[id]]

\* step 1 of merge: absorb the remote blocks
merge_blocks(local, remote) ==
    [id \in DOMAIN local \cup DOMAIN remote |->
        IF id \in DOMAIN local
        THEN (IF id \in DOMAIN remote /\ remote[id].deleted /\ ~local[id].deleted
              THEN mark_deleted(local[id]) ELSE local[id])
        ELSE remote[id]]

\* a remote maximum taken over the blocks that are not deleted only
remote_max_clock_visible(remote) ==
    IF {id \in DOMAIN remote.blocks : ~remote.blocks[id].deleted} = {} THEN 0
    ELSE CHOOSE c \in {id.clock : id \in DOMAIN remote.blocks} :
            /\ \E id \in DOMAIN remote.blocks :
                  id.clock = c /\ ~remote.blocks[id].deleted
            /\ \A id \in DOMAIN remote.blocks :
                  ~remote.blocks[id].deleted => id.clock <= c

\* step 3 of merge: the largest id.clock of the remote blocks, 0 if none
remote_max_clock(remote) ==
    IF DOMAIN remote.blocks = {} THEN 0
    ELSE CHOOSE c \in {id.clock : id \in DOMAIN remote.blocks} :
            \A id \in DOMAIN remote.blocks : id.clock <= c

\* merge that rebuilds the rope only when the remote brought a new block
merge_rebuild_on_new(e, remote) ==
    IF DOMAIN remote.blocks \subseteq DOMAIN e.blocks
    THEN [e EXCEPT !.blocks = merge_blocks(e.blocks, remote.blocks),
                   !.clock = Max(@, remote_max_clock(remote))]
    ELSE [rebuild_rope([e EXCEPT !.blocks = merge_blocks(e.blocks, remote.blocks)])
             EXCEPT !.clock = Max(@, remote_max_clock(remote))]

\* FugueText::merge(remote)
merge(e, remote) ==
    [rebuild_rope([e EXCEPT !.blocks = merge_blocks(e.blocks, remote.blocks)])
        EXCEPT !.clock = update(@, remote_max_clock(remote))]

\* the match on search_result in get_node_id_at_position
NodeIdAt(e, position, oob, sr) ==
    LET block_id == e.cached_blocks[sr.idx + 1]
        offset_in_block == position - cached_position_or_0(e.blocks[block_id])
    IN  IF e.cached_blocks = <<>> THEN Done(e, oob)
        ELSE IF sr.found
        THEN Done(e, Ok(NodeId(block_id.client_id,
                               FirstChar(e, block_id).clock + offset_in_block, 0)))
        ELSE Done(e, oob)

NodeIdLookup(e, position, oob) ==
    NodeIdAt(e, position, oob, binary_search_by(e, position))

\* FugueText::get_node_id_at_position(position)
get_node_id_at_position(e, position) ==
    IF position >= len(e) THEN
        Done(e, Err([err |-> "PositionOutOfBounds", position |-> position,
                     length |-> len(e)]))
    ELSE NodeIdLookup(EnsureCache(e), position,
                      Err([err |-> "PositionOutOfBounds", position |-> position,
                           length |-> len(e)]))

\* steps 3..5 of get_position_of_node_id on the block found for node_id
PositionIn(e, node_id, found) ==
    LET block_id == Unwrap(found)
        block == e.blocks[block_id]
        offset_in_block == node_id.clock - FirstChar(e, block_id).clock
    IN  IF ~IsSome(found) THEN Done(e, None)
        ELSE IF block.deleted THEN Done(e, None)
        ELSE IF offset_in_block >= BlockLen(block) THEN Done(e, None)
        ELSE IF block.cached_start_pos # USIZE_MAX
        THEN Done(e, Some(block.cached_start_pos + offset_in_block))
        ELSE Done(e, None)

PositionLookup(e, node_id) ==
    PositionIn(e, node_id, find_block_for_nodeid(e.blocks, node_id))

\* FugueText::get_position_of_node_id(node_id): Some(position) or None
get_position_of_node_id(e, node_id) == PositionLookup(EnsureCache(e), node_id)

\* ---------------------------------------------------------- serialization
\* FugueBlock's derived Serialize: cached positions are skipped
SerializeBlock(id, block) ==
    [id |-> id, text |-> block.text, left_origin |-> block.left_origin,
     right_origin |-> block.right_origin, deleted |-> block.deleted]

\* FugueBlock's derived Deserialize: skipped fields take their defaults
DeserializeBlock(b) ==
    [text |-> b.text, left_origin |-> b.left_origin,
     right_origin |-> b.right_origin, deleted |-> b.deleted,
     cached_start_pos |-> USIZE_MAX]

\* impl Serialize for FugueText: the (id, block) pairs in BTreeMap order,
\* the clock and the client id
serialize(e) ==
    LET ids == SortIds(DOMAIN e.blocks)
    IN  [blocks |-> [i \in 1..Len(ids) |->
                        <<ids[i], SerializeBlock(ids[i], e.blocks[ids[i]])>>],
         clock |-> e.clock,
         client_id |-> e.client_id]

\* helper.blocks.into_iter().collect() into a BTreeMap
RECURSIVE Collect(_, _)
Collect(blocks, pairs) ==
    IF pairs = <<>> THEN blocks
    ELSE Collect(MapInsert(blocks, Head(pairs)[1], DeserializeBlock(Head(pairs)[2])),
                 Tail(pairs))

\* the engine built from the collected blocks: the rope is the text of the
\* non-deleted blocks along blocks.values()
Deserialized(helper, blocks) ==
    [rope |-> ConcatText(blocks, SortIds(DOMAIN blocks)),
     blocks |-> blocks,
     clock |-> helper.clock,
     client_id |-> helper.client_id,
     cache_valid |-> FALSE,
     cached_blocks |-> <<>>]

\* impl Deserialize for FugueText
deserialize(helper) == Deserialized(helper, Collect(<<>>, helper.blocks))

\* --------------------------------------------------------------- PNCounter
\* PNCounter::new: the replica's own counters start at 0
PNCounter_new(replica_id) ==
    [replica_id |-> replica_id,
     positive |-> [k \in {replica_id} |-> 0],
     negative |-> [k \in {replica_id} |-> 0]]

\* map.get(k).unwrap_or(&0)
GetOr0(map, k) == IF k \in DOMAIN map THEN map[k] ELSE 0

\* increment / decrement after the assert: map.insert(replica_id, current + amount)
Bump(map, replica_id, amount) ==
    [k \in DOMAIN map \cup {replica_id} |->
        IF k = replica_id THEN GetOr0(map, replica_id) + amount ELSE map[k]]

pn_increment(c, amount) == [c EXCEPT !.positive = Bump(@, c.replica_id, amount)]

pn_decrement(c, amount) == [c EXCEPT !.negative = Bump(@, c.replica_id, amount)]

\* values().sum()
RECURSIVE SumOver(_, _)
SumOver(map, keys) ==
    IF keys = {} THEN 0
    ELSE LET k == CHOOSE x \in keys : TRUE
         IN  map[k] + SumOver(map, keys \ {k})

pn_value(c) ==
    SumOver(c.positive, DOMAIN c.positive) - SumOver(c.negative, DOMAIN c.negative)

\* one loop of merge: every key of the other side gets max(current or 0, count)
MergeMax(mine, theirs) ==
    [k \in DOMAIN mine \cup DOMAIN theirs |->
        IF k \in DOMAIN theirs THEN Max(GetOr0(mine, k), theirs[k]) ELSE mine[k]]

\* PNCounter::merge that adds the positive counts instead of taking the maximum
pn_merge_adds(c, other) ==
    [c EXCEPT !.positive =
                 [k \in DOMAIN @ \cup DOMAIN other.positive |->
                     IF k \in DOMAIN other.positive
                     THEN GetOr0(@, k) + other.positive[k] ELSE @[k]],
              !.negative = MergeMax(@, other.negative)]

\* PNCounter::merge(other)
pn_merge(c, other) ==
    [c EXCEPT !.positive = MergeMax(@, other.positive),
              !.negative = MergeMax(@, other.negative)]

\* PNCounter::reset
pn_reset(c) == PNCounter_new(c.replica_id)

\* --------------------------------------------------------- IncreasingClock
\* u64::MAX at the scaled-down width
U64_MAX == 2^ClockBits - 1

\* AtomicU64::fetch_add(1): wraps around on overflow
fetch_add_1(value) == (value + 1) % (U64_MAX + 1)

\* AtomicU64::fetch_max(other)
fetch_max(value, other) == Max(value, other)

\* IncreasingClock::increment: the `+ 1` on the fetched value overflows when
\* the value was u64::MAX; a build that checks overflow panics, one that
\* wraps returns 0. The atomic has wrapped to 0 in both.
clock_increment(value, checked) ==
    [value |-> fetch_add_1(value),
     ret |-> (value + 1) % (U64_MAX + 1),
     panic |-> value = U64_MAX /\ checked]

\* IncreasingClock::update_to_max
update_to_max(value, other) == fetch_max(value, other)

\* ---------------------------------------------------------- LamportClock
\* the LamportClock as a value of its own, over the u64 (ClockBits bits
\* here). `self.value += count` overflows past u64::MAX: a build that checks
\* overflow panics before the store, one that wraps stores the wrapped sum
LamportClock_new == [value |-> 0, panicked |-> FALSE, n |-> 0]

LamportClock_tick_by(value, count, checked) ==
    [value |-> IF checked /\ tick_by(value, count) > U64_MAX THEN value
               ELSE tick_by(value, count) % (U64_MAX + 1),
     ret |-> tick_by(value, count) % (U64_MAX + 1),
     panic |-> checked /\ tick_by(value, count) > U64_MAX]

LamportClock_tick(value, checked) == LamportClock_tick_by(value, 1, checked)

LamportClock_update(value, remote) == update(value, remote)

\* --------------------------------------------------------------- Awareness
\* Awareness::new
Awareness_new(client_id) ==
    [client_id |-> client_id, states |-> <<>>, clock |-> 0, panicked |-> FALSE]

AwarenessState(client_id, state, clock, now) ==
    [client_id |-> client_id, state |-> state, clock |-> clock,
     last_updated |-> Some(now)]

AwarenessUpdate(client_id, state, clock) ==
    [client_id |-> client_id, state |-> state, clock |-> clock]

\* set_local_state once the clock has been incremented to inc
SetLocal(a, state, now, inc) ==
    IF inc.panic
    THEN [a |-> [a EXCEPT !.clock = inc.value, !.panicked = TRUE],
          update |-> None]
    ELSE [a |-> [a EXCEPT !.clock = inc.value,
                          !.states = MapInsert(@, a.client_id,
                              AwarenessState(a.client_id, state, inc.ret, now))],
          update |-> Some(AwarenessUpdate(a.client_id, Some(state), inc.ret))]

\* Awareness::set_local_state(state)
set_local_state(a, state, now, checked) ==
    SetLocal(a, state, now, clock_increment(a.clock, checked))

\* apply_update that also takes a state whose clock equals the stored one
apply_update_equal(a, upd, now) ==
    LET should_update == IF upd.client_id \in DOMAIN a.states
                         THEN upd.clock >= a.states[upd.client_id].clock
                         ELSE TRUE
    IN  [a EXCEPT !.clock = update_to_max(@, upd.clock),
                  !.states = IF ~IsSome(upd.state)
                             THEN MapRemove(@, upd.client_id)
                             ELSE IF should_update
                             THEN MapInsert(@, upd.client_id,
                                     AwarenessState(upd.client_id,
                                                    Unwrap(upd.state),
                                                    upd.clock, now))
                             ELSE @]

\* Awareness::apply_update(update); upd is the update
apply_update(a, upd, now) ==
    LET should_update == IF upd.client_id \in DOMAIN a.states
                         THEN upd.clock > a.states[upd.client_id].clock
                         ELSE TRUE
    IN  [a EXCEPT !.clock = update_to_max(@, upd.clock),
                  !.states = IF ~IsSome(upd.state)
                             THEN MapRemove(@, upd.client_id)
                             ELSE IF should_update
                             THEN MapInsert(@, upd.client_id,
                                     AwarenessState(upd.client_id,
                                                    Unwrap(upd.state),
                                                    upd.clock, now))
                             ELSE @]

\* create_leave_update once the clock has been incremented to inc
Leave(a, inc) ==
    IF inc.panic
    THEN [a |-> [a EXCEPT !.clock = inc.value, !.panicked = TRUE],
          update |-> None]
    ELSE [a |-> [a EXCEPT !.clock = inc.value],
          update |-> Some(AwarenessUpdate(a.client_id, None, inc.ret))]

\* Awareness::create_leave_update
create_leave_update(a, checked) == Leave(a, clock_increment(a.clock, checked))

\* ---------------------------------------------------------- the system
VARIABLES
    eng,        \* eng[r]: the FugueText of replica r
    panicked,   \* panicked[r]: a call on replica r panicked; the replica is gone
    calls,      \* how many calls of each kind have been made
    last,       \* the last call: <<operation, [r, its arguments, res]>>
    anchors,    \* the identifiers get_node_id_at_position has handed out: [r, id]
    removed,    \* removed[r]: the graphemes <<client, clock>> whose deletion r
                \* has asked for, or has merged from a replica that did
    merged,     \* merged[r]: the replicas r has merged since the last edit anywhere
    wraps,      \* wraps[r]: an overflow has wrapped on r, so r's build wraps
    typing,     \* typing[r]: the run r's user is typing: [mode, position, n]
    counters,   \* counters[r]: the PNCounter of replica r
    aw,         \* the Awareness instance of client 1
    awlog,      \* what that instance has issued and applied: the clocks of
                \* the updates it returned, in order, and of those it applied
    shared,     \* the value of an IncreasingClock that several threads share
    threads,    \* threads[t]: where thread t is in its call: [pc, old, n]
    returned,   \* the values increment() has returned, in order of return
    lamport     \* a LamportClock used on its own: [value, panicked, n]

vars == <<eng, panicked, calls, last, anchors, removed, merged, wraps, typing,
          counters, aw, awlog, shared, threads, returned, lamport>>

\* the state of the text engines and of what the hosts remember of them
textVars == <<eng, panicked, anchors, removed, merged, wraps, typing>>

\* the state of the other components
others == <<counters, aw, awlog, shared, threads, returned, lamport>>

clockVars == <<shared, threads, returned>>

awVars == <<aw, awlog>>

\* the grapheme a char belongs to
GraphemeOf(ch) == <<ch[1], ch[2]>>

\* the graphemes shown at the visible positions [position, position + length)
GraphemesAt(rope, position, length) ==
    LET gs == graphemes(rope)
    IN  {GraphemeOf(gs[i][1]) :
            i \in (position + 1)..Min(position + length, Len(gs))}

InitOf(ids) ==
    /\ eng = [r \in ids |-> FugueText_new(r)]
    /\ panicked = [r \in ids |-> FALSE]
    /\ calls = [insert |-> 0, delete |-> 0, merge |-> 0, query |-> 0,
                reload |-> 0, counter |-> 0, awareness |-> 0]
    /\ last = <<"new", [r |-> 0]>>
    /\ anchors = {}
    /\ removed = [r \in ids |-> {}]
    /\ merged = [r \in ids |-> {}]
    /\ wraps = [r \in ids |-> FALSE]
    /\ typing = [r \in ids |-> [mode |-> "none", position |-> 0, n |-> 0]]
    /\ counters = [r \in ids |-> PNCounter_new(r)]
    /\ aw = Awareness_new(1)
    /\ awlog = [issued |-> <<>>, applied |-> {}]
    /\ shared = 0
    /\ threads = [t \in 1..NumThreads |-> [pc |-> "idle", old |-> 0, n |-> 0]]
    /\ returned = <<>>
    /\ lamport = LamportClock_new

Init == InitOf(Replicas)

\* the effect on replica r of a call that returned or panicked
Return(r, out) ==
    /\ eng' = [eng EXCEPT ![r] = out.e]
    /\ panicked' = [panicked EXCEPT ![r] = out.panic]
    /\ wraps' = [wraps EXCEPT ![r] = @ \/ out.wrapped]
    /\ UNCHANGED others

Inserted(r, position, kinds, out) ==
    /\ Return(r, out)
    /\ calls' = [calls EXCEPT !.insert = @ + 1]
    /\ last' = <<"insert", [r |-> r, position |-> position, kinds |-> kinds,
                           res |-> out.res]>>
    /\ merged' = IF out.res.ok THEN [x \in DOMAIN eng |-> {}] ELSE merged
    /\ UNCHANGED <<anchors, removed, typing>>

\* the build of r checks overflow or wraps: open until an overflow wrapped
Insert(r, position, kinds) ==
    /\ ~panicked[r]
    /\ \E checked \in (IF wraps[r] THEN {FALSE} ELSE BOOLEAN) :
          Inserted(r, position, kinds, insert(eng[r], position, kinds, checked))

Deleted(r, position, length, out) ==
    /\ Return(r, out)
    /\ calls' = [calls EXCEPT !.delete = @ + 1]
    /\ last' = <<"delete", [r |-> r, position |-> position, length |-> length,
                           res |-> out.res]>>
    /\ merged' = IF out.res.ok THEN [x \in DOMAIN eng |-> {}] ELSE merged
    /\ removed' = IF out.res.ok
                  THEN [removed EXCEPT ![r] =
                           @ \cup GraphemesAt(eng[r].rope, position, length)]
                  ELSE removed
    /\ UNCHANGED <<anchors, typing>>

Delete(r, position, length) ==
    /\ ~panicked[r]
    /\ Deleted(r, position, length, delete(eng[r], position, length))

Merge(r, s) ==
    /\ ~panicked[r] /\ ~panicked[s]
    /\ eng' = [eng EXCEPT ![r] = merge(eng[r], eng[s])]
    /\ calls' = [calls EXCEPT !.merge = @ + 1]
    /\ last' = <<"merge", [r |-> r, remote |-> s]>>
    /\ merged' = [merged EXCEPT ![r] = @ \cup {s}]
    /\ removed' = [removed EXCEPT ![r] = @ \cup removed[s]]
    /\ UNCHANGED <<panicked, anchors, wraps, typing, others>>

GotNodeId(r, position, out) ==
    /\ Return(r, out)
    /\ calls' = [calls EXCEPT !.query = @ + 1]
    /\ last' = <<"get_node_id_at_position",
                [r |-> r, position |-> position, res |-> out.res]>>
    /\ anchors' = IF out.res.ok
                  THEN anchors \cup {[r |-> r, id |-> out.res.val]}
                  ELSE anchors
    /\ UNCHANGED <<removed, merged, typing>>

GetNodeIdAtPosition(r, position) ==
    /\ ~panicked[r]
    /\ GotNodeId(r, position, get_node_id_at_position(eng[r], position))

GotPosition(r, node_id, out) ==
    /\ Return(r, out)
    /\ last' = <<"get_position_of_node_id",
                [r |-> r, node_id |-> node_id, res |-> out.res]>>
    /\ UNCHANGED <<calls, anchors, removed, merged, typing>>

GetPositionOfNodeId(r, node_id) ==
    /\ ~panicked[r]
    /\ GotPosition(r, node_id, get_position_of_node_id(eng[r], node_id))

\* A replica's user types or pastes a text at some position of what is shown
\* (one position past the end is refused by the engine).
LocalInsert ==
    \E r \in DOMAIN eng : \E position \in 0..(len(eng[r]) + 1) :
       \E kinds \in Texts :
          calls.insert < MaxInserts /\ Insert(r, position, kinds)

\* A replica's user deletes a range (ranges past the end are refused).
LocalDelete ==
    \E r \in DOMAIN eng : \E position \in 0..len(eng[r]) :
       \E length \in 0..(len(eng[r]) + 1 - position) :
          calls.delete < MaxDeletes /\ Delete(r, position, length)

\* A replica receives the state of another replica and merges it.
Sync ==
    \E r \in DOMAIN eng : \E s \in DOMAIN eng \ {r} :
       calls.merge < MaxMerges /\ Merge(r, s)

\* Editing and merging replicas.
Next == LocalInsert \/ LocalDelete \/ Sync

Spec == Init /\ [][Next]_vars

\* Three replicas, for the laws of merge that speak of three engines.
InitThree == InitOf(1..(NumReplicas + 1))

SyncThree ==
    \E r \in DOMAIN eng : \E s \in DOMAIN eng \ {r} :
       calls.merge < MaxThreeMerges /\ Merge(r, s)

NextThree == LocalInsert \/ LocalDelete \/ SyncThree

SpecThree == InitThree /\ [][NextThree]_vars

AnchorSync ==
    \E r \in DOMAIN eng : \E s \in DOMAIN eng \ {r} :
       calls.merge < MaxAnchorMerges /\ Merge(r, s)

\* A host takes an anchor at a visible position.
TakeAnchor ==
    \E r \in DOMAIN eng : \E position \in 0..len(eng[r]) :
       calls.query < MaxQueries /\ GetNodeIdAtPosition(r, position)

\* A host resolves an anchor it holds, once an edit or a merge has
\* invalidated the position cache of its replica.
ResolveAnchor ==
    \E x \in anchors : ~eng[x.r].cache_valid /\ GetPositionOfNodeId(x.r, x.id)

\* Editing and merging replicas whose hosts also take and resolve anchors.
NextAnchor ==
    LocalInsert \/ LocalDelete \/ AnchorSync \/ TakeAnchor \/ ResolveAnchor

SpecAnchor == Init /\ [][NextAnchor]_vars

\* the host stores the serialized engine of r and loads it again
Reloaded(r, e) ==
    /\ eng' = [eng EXCEPT ![r] = e]
    /\ calls' = [calls EXCEPT !.reload = @ + 1]
    /\ last' = <<"reload", [r |-> r]>>
    /\ UNCHANGED <<panicked, anchors, removed, merged, wraps, typing, others>>

Reload(r) ==
    /\ ~panicked[r]
    /\ Reloaded(r, deserialize(serialize(eng[r])))

\* A replica is persisted and restored from its serialized form.
Persist ==
    \E r \in DOMAIN eng : calls.reload < MaxReloads /\ Reload(r)

\* Editing and merging replicas that are persisted and restored.
NextReload == LocalInsert \/ LocalDelete \/ Sync \/ Persist

SpecReload == Init /\ [][NextReload]_vars

\* Editing and merging replicas whose hosts take anchors, which rebuilds
\* the position cache, and persist and restore the replicas.
NextCache == LocalInsert \/ LocalDelete \/ AnchorSync \/ TakeAnchor \/ Persist

SpecCache == Init /\ [][NextCache]_vars

\* Two typists (replicas 1 and 2) and a third replica that wrote the text
\* they both start from.
Typists == {1, 2}

Source == NumReplicas + 1

\* the blocks of an engine that came from the source replica
FromSource(e) == {id \in DOMAIN e.blocks : id.client_id = Source}

NoneTyped == \A r \in Typists : typing[r].n = 0

NoExchange == \A r \in Typists : merged[r] \cap Typists = {}

\* The source replica writes the starting text.
Seed ==
    \E kinds \in {<<"a">>, <<"a", "a">>} :
        /\ calls.insert < MaxSeeds
        /\ NoneTyped /\ NoExchange
        /\ \A r \in Typists : FromSource(eng[r]) = {}
        /\ Insert(Source, 0, kinds)

\* A typist receives the starting text before typing anything.
Share ==
    \E r \in Typists :
        /\ calls.merge < MaxShares
        /\ NoneTyped /\ NoExchange
        /\ FromSource(eng[r]) = {}
        /\ FromSource(eng[Source]) # {}
        /\ Merge(r, Source)

\* one insert of a run: a single grapheme at the run's position
Typed(r, mode, position, out) ==
    /\ Return(r, out)
    /\ calls' = [calls EXCEPT !.insert = @ + 1]
    /\ last' = <<"insert", [r |-> r, position |-> position, kinds |-> <<"a">>,
                           res |-> out.res]>>
    /\ typing' = [typing EXCEPT ![r] = [mode |-> mode, position |-> position,
                                        n |-> @.n + 1]]
    /\ UNCHANGED <<anchors, removed, merged>>

\* A typist types the next grapheme of a run: forward, always at the end of
\* the text, or backward, always at the position of the run's first insert.
\* Both typists started from the same text and have not merged each other.
Type ==
    \E r \in Typists :
      \E mode \in (IF typing[r].n = 0 THEN {"forward", "backward"}
                   ELSE {typing[r].mode}) :
        \E position \in (IF mode = "forward" THEN {len(eng[r])}
                         ELSE IF typing[r].n = 0 THEN 0..len(eng[r])
                         ELSE {typing[r].position}) :
          /\ typing[r].n < MaxRun
          /\ NoExchange
          /\ \A s \in Typists : FromSource(eng[s]) = FromSource(eng[r])
          /\ ~panicked[r]
          /\ \E checked \in (IF wraps[r] THEN {FALSE} ELSE BOOLEAN) :
                Typed(r, mode, position,
                      insert(eng[r], position, <<"a">>, checked))

\* After their runs, a typist merges the other typist.
Exchange ==
    \E r \in Typists : \E s \in Typists \ {r} :
        /\ calls.merge < MaxShares + MaxExchanges
        /\ ~NoneTyped
        /\ Merge(r, s)

NextTyping == Seed \/ Share \/ Type \/ Exchange

SpecTyping == InitThree /\ [][NextTyping]_vars

\* the texts pasted: those typed, and one long enough that a delete inside
\* it leaves a slice on both sides
Pastes == Texts \cup { [i \in 1..MaxPaste |-> "a"] }

\* A replica's user pastes a text.
Paste ==
    \E r \in DOMAIN eng : \E position \in 0..len(eng[r]) :
       \E kinds \in Pastes :
          calls.insert < MaxInserts /\ Insert(r, position, kinds)

\* A replica's user deletes a range that is not empty.
SplitDelete ==
    \E r \in DOMAIN eng : \E position \in 0..len(eng[r]) :
       \E length \in 1..(len(eng[r]) - position) :
          calls.delete < MaxSplitDeletes /\ Delete(r, position, length)

\* A replica receives the state of another replica and merges it.
SplitSync ==
    \E r \in DOMAIN eng : \E s \in DOMAIN eng \ {r} :
       calls.merge < MaxSplitMerges /\ Merge(r, s)

NextSplit == Paste \/ SplitDelete \/ SplitSync

\* Replicas that paste, delete parts of what was pasted, and merge.
SpecSplit == Init /\ [][NextSplit]_vars

\* amounts a host passes to increment and decrement (a negative one is
\* refused by the assert)
Amounts == {-1, 1, 2}

\* a call on the counter of replica r that left it as c
CounterCall(r, op, arg, c, panic) ==
    /\ counters' = [counters EXCEPT ![r] = c]
    /\ calls' = [calls EXCEPT !.counter = @ + 1]
    /\ last' = <<op, [r |-> r, arg |-> arg, panic |-> panic]>>
    /\ UNCHANGED <<textVars, awVars, clockVars, lamport>>

\* assert!(amount >= 0) panics before the counter is touched
Increment ==
    \E r \in DOMAIN counters : \E amount \in Amounts :
        /\ calls.counter < MaxCounterOps
        /\ IF amount >= 0
           THEN CounterCall(r, "increment", amount,
                            pn_increment(counters[r], amount), FALSE)
           ELSE CounterCall(r, "increment", amount, counters[r], TRUE)

Decrement ==
    \E r \in DOMAIN counters : \E amount \in Amounts :
        /\ calls.counter < MaxCounterOps
        /\ IF amount >= 0
           THEN CounterCall(r, "decrement", amount,
                            pn_decrement(counters[r], amount), FALSE)
           ELSE CounterCall(r, "decrement", amount, counters[r], TRUE)

Reset ==
    \E r \in DOMAIN counters :
        /\ calls.counter < MaxCounterOps
        /\ CounterCall(r, "reset", 0, pn_reset(counters[r]), FALSE)

\* A replica receives the counter of another replica and merges it.
CounterMerge ==
    \E r \in DOMAIN counters : \E s \in DOMAIN counters \ {r} :
        /\ calls.merge < MaxCounterMerges
        /\ counters' = [counters EXCEPT ![r] = pn_merge(counters[r], counters[s])]
        /\ calls' = [calls EXCEPT !.merge = @ + 1]
        /\ last' = <<"counter_merge", [r |-> r, remote |-> s]>>
        /\ UNCHANGED <<textVars, awVars, clockVars, lamport>>

NextCounter == Increment \/ Decrement \/ Reset \/ CounterMerge

\* Three replicas that count and merge.
SpecCounter == InitThree /\ [][NextCounter]_vars

\* the clients an update may speak of (1 is the local one), the JSON states
\* and the clocks it may carry
Clients == {1, 2}

JsonStates == {"s1", "s2"}

Updates ==
    { AwarenessUpdate(c, st, k) :
        c \in Clients, st \in {None} \cup {Some(x) : x \in JsonStates},
        k \in 0..U64_MAX }

\* a call on the Awareness instance that returned an update or panicked;
\* Instant::now() is the number of calls made so far
AwarenessCall(op, arg, out) ==
    /\ aw' = out.a
    /\ awlog' = IF IsSome(out.update)
                THEN [awlog EXCEPT !.issued = Append(@, Unwrap(out.update).clock)]
                ELSE awlog
    /\ calls' = [calls EXCEPT !.awareness = @ + 1]
    /\ last' = <<op, [arg |-> arg, update |-> out.update]>>
    /\ UNCHANGED <<textVars, counters, clockVars, lamport>>

\* The local user changes their presence state.
SetLocalState ==
    \E state \in JsonStates : \E checked \in BOOLEAN :
        /\ calls.awareness < MaxAwarenessCalls
        /\ ~aw.panicked
        /\ AwarenessCall("set_local_state", state,
                         set_local_state(aw, state, calls.awareness, checked))

\* An update arrives from the network.
ApplyUpdate ==
    \E upd \in Updates :
        /\ calls.awareness < MaxAwarenessCalls
        /\ ~aw.panicked
        /\ aw' = apply_update(aw, upd, calls.awareness)
        /\ awlog' = [awlog EXCEPT !.applied = @ \cup {upd.clock}]
        /\ calls' = [calls EXCEPT !.awareness = @ + 1]
        /\ last' = <<"apply_update", [arg |-> upd, update |-> None]>>
        /\ UNCHANGED <<textVars, counters, clockVars, lamport>>

\* The local user leaves.
CreateLeaveUpdate ==
    \E checked \in BOOLEAN :
        /\ calls.awareness < MaxAwarenessCalls
        /\ ~aw.panicked
        /\ AwarenessCall("create_leave_update", "none",
                         create_leave_update(aw, checked))

NextAwareness == SetLocalState \/ ApplyUpdate \/ CreateLeaveUpdate

SpecAwareness == Init /\ [][NextAwareness]_vars

\* what the threads leave alone
notClock == <<textVars, counters, awVars, calls, lamport>>

\* Thread t starts increment(): the fetch_add on the shared atomic.
FetchAdd ==
    \E t \in DOMAIN threads :
        /\ threads[t].pc = "idle"
        /\ threads[t].n < MaxThreadCalls
        /\ shared' = fetch_add_1(shared)
        /\ threads' = [threads EXCEPT ![t] = [pc |-> "fetched", old |-> shared,
                                              n |-> @.n + 1]]
        /\ last' = <<"fetch_add", [t |-> t]>>
        /\ UNCHANGED <<returned, notClock>>

\* Thread t ends increment(): it adds 1 to the value it fetched and returns
\* it, or panics on the overflow in a build that checks overflow.
IncrementReturns ==
    \E t \in DOMAIN threads : \E checked \in BOOLEAN :
        /\ threads[t].pc = "fetched"
        /\ IF clock_increment(threads[t].old, checked).panic
           THEN /\ threads' = [threads EXCEPT ![t].pc = "panicked"]
                /\ UNCHANGED returned
           ELSE /\ threads' = [threads EXCEPT ![t].pc = "idle"]
                /\ returned' = Append(returned,
                                  clock_increment(threads[t].old, checked).ret)
        /\ last' = <<"increment", [t |-> t]>>
        /\ UNCHANGED <<shared, notClock>>

\* Thread t calls update_to_max(other): one fetch_max on the shared atomic.
UpdateToMax ==
    \E t \in DOMAIN threads : \E other \in 0..U64_MAX :
        /\ threads[t].pc = "idle"
        /\ threads[t].n < MaxThreadCalls
        /\ shared' = update_to_max(shared, other)
        /\ threads' = [threads EXCEPT ![t].n = @ + 1]
        /\ last' = <<"update_to_max", [t |-> t, other |-> other]>>
        /\ UNCHANGED <<returned, notClock>>

NextClock == FetchAdd \/ IncrementReturns \/ UpdateToMax

\* Threads that call increment() and update_to_max() on one clock.
SpecClock == Init /\ [][NextClock]_vars

\* what the calls on the LamportClock leave alone
notLamport == <<textVars, counters, awVars, clockVars, calls>>

\* a call on the LamportClock that returned out.ret or panicked
LamportCall(op, arg, out) ==
    /\ lamport' = [value |-> out.value, panicked |-> out.panic,
                   n |-> lamport.n + 1]
    /\ last' = <<op, [arg |-> arg, ret |-> out.ret, panic |-> out.panic]>>
    /\ UNCHANGED notLamport

Tick ==
    \E checked \in BOOLEAN :
        /\ lamport.n < MaxLamportCalls /\ ~lamport.panicked
        /\ LamportCall("tick", 1, LamportClock_tick(lamport.value, checked))

TickBy ==
    \E count \in 0..MaxTick : \E checked \in BOOLEAN :
        /\ lamport.n < MaxLamportCalls /\ ~lamport.panicked
        /\ LamportCall("tick_by", count,
                        LamportClock_tick_by(lamport.value, count, checked))

\* update returns nothing: ret is the value it leaves
Update ==
    \E remote \in 0..U64_MAX :
        /\ lamport.n < MaxLamportCalls /\ ~lamport.panicked
        /\ LamportCall("update", remote,
                        [value |-> LamportClock_update(lamport.value, remote),
                         ret |-> LamportClock_update(lamport.value, remote),
                         panic |-> FALSE])

NextLamport == Tick \/ TickBy \/ Update

\* Calls of tick, tick_by and update on one LamportClock.
SpecLamport == Init /\ [][NextLamport]_vars

\* ------------------------------------------------------------ properties
\* what the claims call the block store: ids, text, origins, deleted flags
Store(e) ==
    [id \in DOMAIN e.blocks |->
        [text |-> e.blocks[id].text,
         left_origin |-> e.blocks[id].left_origin,
         right_origin |-> e.blocks[id].right_origin,
         deleted |-> e.blocks[id].deleted]]

\* the text of the non-deleted blocks in Fugue document order
DocumentText(e) == ConcatText(e.blocks, get_document_order(e.blocks))

Live == {r \in DOMAIN eng : ~panicked[r]}

\* C1 (convergence): once every replica has merged every other replica and
\* no edit has happened since, to_string() is the same on all replicas.
Convergence ==
    (\A r \in DOMAIN eng : r \in Live /\ merged[r] = DOMAIN eng \ {r})
        => \A r, s \in DOMAIN eng : to_string(eng[r]) = to_string(eng[s])

MergeCommutative ==
    \A r, s \in Live :
        /\ to_string(merge(eng[r], eng[s])) = to_string(merge(eng[s], eng[r]))
        /\ Store(merge(eng[r], eng[s])) = Store(merge(eng[s], eng[r]))

\* C4 (merge is idempotent): merging a reachable engine with a copy of
\* itself leaves to_string() and the block store unchanged.
MergeIdempotent ==
    \A r \in Live :
        /\ to_string(merge(eng[r], eng[r])) = to_string(eng[r])
        /\ Store(merge(eng[r], eng[r])) = Store(eng[r])


SameTextAndStore(x, y) == to_string(x) = to_string(y) /\ Store(x) = Store(y)

\* C5 (merge is associative): for three engines A, B, C, merging B then C
\* into A gives the same visible text and block store as merging (B merged
\* with C) into A.
MergeAssociative ==
    \A a, b, c \in Live :
        (a # b /\ b # c /\ a # c)
            => SameTextAndStore(merge(merge(eng[a], eng[b]), eng[c]),
                                merge(eng[a], merge(eng[b], eng[c])))

\* three engines that differ: A shows a block that C holds as a tombstone,
\* and B holds a block that neither A nor C knows
MergeAssociativeWitness ==
    \E a, b, c \in Live :
        /\ a # b /\ b # c /\ a # c
        /\ \E id \in DOMAIN eng[a].blocks \cap DOMAIN eng[c].blocks :
              ~eng[a].blocks[id].deleted /\ eng[c].blocks[id].deleted
        /\ DOMAIN eng[b].blocks \ (DOMAIN eng[a].blocks \cup DOMAIN eng[c].blocks)
              # {}
        /\ to_string(merge(merge(eng[a], eng[b]), eng[c])) # <<>>

\* the character an identifier names: (replica, clock)
CharOf(id) == <<id.client_id, id.clock>>

\* the visible grapheme position of a character in a string, -1 if not shown
PositionOf(rope, ch) ==
    IF \E i \in 1..Len(graphemes(rope)) : GraphemeOf(graphemes(rope)[i][1]) = ch
    THEN (CHOOSE i \in 1..Len(graphemes(rope)) :
             GraphemeOf(graphemes(rope)[i][1]) = ch) - 1
    ELSE -1

\* C6 (anchor stability): for an identifier x that get_node_id_at_position
\* returned, as long as x's character has not been deleted,
\* get_position_of_node_id(x) is the visible position of that character.
AnchorStability ==
    \A x \in anchors :
        (x.r \in Live /\ CharOf(x.id) \notin removed[x.r])
            => get_position_of_node_id(eng[x.r], x.id).res
                  = Some(PositionOf(eng[x.r].rope, CharOf(x.id)))

\* C7: for an identifier x that get_node_id_at_position returned, once x's
\* character has been deleted (locally or by a merged replica),
\* get_position_of_node_id(x) is none in every later state.
DeletedAnchorIsNone ==
    \A x \in anchors :
        (x.r \in Live /\ CharOf(x.id) \in removed[x.r])
            => get_position_of_node_id(eng[x.r], x.id).res = None

\* the characters (replica, clock) held by the deleted blocks of an engine
Tombstoned(e) ==
    UNION { { <<id.client_id, c>> :
                 c \in (id.clock - BlockLen(e.blocks[id]) + 1)..id.clock } :
              id \in {i \in DOMAIN e.blocks : e.blocks[i].deleted} }

\* the characters shown by an engine
Shown(e) == { GraphemeOf(e.rope[i]) : i \in 1..Len(e.rope) }

\* C8 (tombstone monotonicity): a character held by a deleted block stays
\* held by a deleted block and is not shown after any insert, delete or merge.
TombstoneMonotonicity ==
    [][\A r \in DOMAIN eng :
          \A ch \in Tombstoned(eng[r]) :
              ch \in Tombstoned(eng'[r]) /\ ch \notin Shown(eng'[r])]_vars

\* C9 (clock monotonicity): clock() never decreases across insert, delete
\* and merge, and right after merge(remote) it is at least the larger of
\* remote.clock() and the local clock before.
ClockMonotonicity ==
    [][/\ \A r \in DOMAIN eng : eng'[r].clock >= eng[r].clock
       /\ last'[1] = "merge"
            => eng'[last'[2].r].clock
                  >= Max(eng[last'[2].remote].clock, eng[last'[2].r].clock)]_vars

\* a merge has raised the clock of a replica that had typed text of its own
ClockMonotonicityWitness ==
    /\ last[1] = "merge"
    /\ \E id \in DOMAIN eng[last[2].r].blocks : id.client_id = last[2].r
    /\ \A id \in DOMAIN eng[last[2].r].blocks :
          id.client_id = last[2].r => id.clock < eng[last[2].r].clock
    /\ eng[last[2].r].clock = eng[last[2].remote].clock

\* old[0..position] + text + old[position..], positions counted in graphemes
Spliced(old, position, text) ==
    join(SubSeq(graphemes(old), 1, position)) \o text
    \o join(SubSeq(graphemes(old), position + 1, Len(graphemes(old))))

\* C10: a successful insert(position, text) changes to_string() to
\* old[0..position] + text + old[position..] and raises length() by the
\* number of graphemes of text.
InsertEffect ==
    [][(last'[1] = "insert" /\ last'[2].res.ok)
          => LET r == last'[2].r
                 text == MkText(r, eng[r].clock, last'[2].kinds)
             IN  /\ to_string(eng'[r]) = Spliced(to_string(eng[r]),
                                                  last'[2].position, text)
                 /\ len(eng'[r]) = len(eng[r]) + Len(graphemes(text))]_vars

\* C11: a successful delete(position, length) removes from to_string()
\* exactly the graphemes at the visible positions [position, position +
\* length), and the blocks it tombstones hold exactly those graphemes.
DeleteEffect ==
    [][(last'[1] = "delete" /\ last'[2].res.ok)
          => LET r == last'[2].r
                 old == to_string(eng[r])
                 position == last'[2].position
                 length == last'[2].length
             IN  /\ to_string(eng'[r])
                       = join(SubSeq(graphemes(old), 1, position))
                         \o join(SubSeq(graphemes(old), position + length + 1,
                                        Len(graphemes(old))))
                 /\ Tombstoned(eng'[r]) \ Tombstoned(eng[r])
                       = GraphemesAt(old, position, length)]_vars

\* the clocks owned by the block stored under id
ClockRange(e, id) == (id.clock - BlockLen(e.blocks[id]) + 1)..id.clock

\* C12: a successful insert of a text of k graphemes on an engine whose
\* clock is c returns the id (local replica, c + k, 0), leaves clock() at
\* c + k, and the block stored under that id owns the clocks c + 1 .. c + k.
InsertAllocatesClocks ==
    [][(last'[1] = "insert" /\ last'[2].res.ok)
          => LET r == last'[2].r
                 k == Len(last'[2].kinds)
                 c == eng[r].clock
                 id == last'[2].res.val
             IN  /\ id = NodeId(eng[r].client_id, c + k, 0)
                 /\ eng'[r].clock = c + k
                 /\ id \in DOMAIN eng'[r].blocks
                 /\ ClockRange(eng'[r], id) = (c + 1)..(c + k)]_vars

\* an insert of two graphemes on an engine whose clock had advanced
InsertAllocatesClocksWitness ==
    /\ last[1] = "insert"
    /\ last[2].res.ok
    /\ Len(last[2].kinds) = 2
    /\ last[2].res.val.clock > 2

\* C13: the id a successful insert returns has a clock strictly above the
\* clock of every block the replica inserted before, so it is never
\* already a key of the block store.
InsertIdsIncrease ==
    [][(last'[1] = "insert" /\ last'[2].res.ok)
          => LET r == last'[2].r
                 id == last'[2].res.val
             IN  /\ id \notin DOMAIN eng[r].blocks
                 /\ \A b \in DOMAIN eng[r].blocks :
                       b.client_id = id.client_id => b.clock < id.clock]_vars

\* C14: in every reachable state the clock ranges of any two distinct
\* blocks of one store that carry the same replica id are disjoint.
ClockRangesDisjoint ==
    \A r \in DOMAIN eng : \A a, b \in DOMAIN eng[r].blocks :
        (a # b /\ a.client_id = b.client_id)
            => ClockRange(eng[r], a) \cap ClockRange(eng[r], b) = {}

\* C15: every block of every store holds at least one grapheme, its id's
\* clock is at least its length, and its first clock is positive.
BlocksNonEmpty ==
    \A r \in DOMAIN eng : \A id \in DOMAIN eng[r].blocks :
        /\ BlockLen(eng[r].blocks[id]) >= 1
        /\ id.clock >= BlockLen(eng[r].blocks[id])
        /\ id.clock - BlockLen(eng[r].blocks[id]) + 1 > 0

\* C16: an insert at a position above length() returns PositionOutOfBounds
\* with that position and that length, and leaves the block store, the
\* rope, the clock and the visible text as they were.
InsertOutOfBounds ==
    [][(last'[1] = "insert" /\ last'[2].position > len(eng[last'[2].r]))
          => LET r == last'[2].r
             IN  /\ last'[2].res = Err([err |-> "PositionOutOfBounds",
                                        position |-> last'[2].position,
                                        length |-> len(eng[r])])
                 /\ eng'[r].blocks = eng[r].blocks
                 /\ eng'[r].rope = eng[r].rope
                 /\ eng'[r].clock = eng[r].clock
                 /\ to_string(eng'[r]) = to_string(eng[r])]_vars

\* a refused insert of a non-empty text on an engine that holds blocks
InsertOutOfBoundsWitness ==
    /\ last[1] = "insert"
    /\ last[2].position > len(eng[last[2].r])
    /\ last[2].kinds # <<>>
    /\ ~last[2].res.ok
    /\ len(eng[last[2].r]) > 0

\* C17: a delete whose range ends above length() returns RangeOutOfBounds,
\* and every error delete returns leaves the block store, the rope and the
\* clock as they were before the call.
DeleteErrorsLeaveState ==
    [][(last'[1] = "delete" /\ ~panicked'[last'[2].r])
          => LET r == last'[2].r
                 position == last'[2].position
                 length == last'[2].length
             IN  /\ position + length > len(eng[r])
                       => last'[2].res = Err([err |-> "RangeOutOfBounds",
                                              start |-> position,
                                              end |-> position + length,
                                              length |-> len(eng[r])])
                 /\ ~last'[2].res.ok
                       => /\ eng'[r].blocks = eng[r].blocks
                          /\ eng'[r].rope = eng[r].rope
                          /\ eng'[r].clock = eng[r].clock]_vars

\* a delete refused for its range on an engine that holds visible text
DeleteErrorsLeaveStateWitness ==
    /\ last[1] = "delete"
    /\ ~last[2].res.ok
    /\ ~panicked[last[2].r]
    /\ last[2].position + last[2].length > len(eng[last[2].r])
    /\ len(eng[last[2].r]) > 1

\* C18: a delete succeeds for every position and length with position +
\* length <= length(), a length of 0 at a position strictly inside a block
\* included: the only error delete returns is RangeOutOfBounds. (Calls that
\* end in a panic of the rope return nothing and are left aside here.)
DeleteInRangeSucceeds ==
    [][(/\ last'[1] = "delete"
        /\ ~panicked'[last'[2].r]
        /\ last'[2].position + last'[2].length <= len(eng[last'[2].r]))
          => last'[2].res.ok]_vars

\* C19 (serialization round trip): the engine deserialized from the
\* serialized blocks, clock and replica id has the to_string() and the
\* length() of the engine that was serialized, and merging it with another
\* engine, in either direction, gives the visible text and block store that
\* the serialized engine would have given.
SerializationRoundTrip ==
    [][last'[1] = "reload"
          => LET r == last'[2].r
             IN  /\ to_string(eng'[r]) = to_string(eng[r])
                 /\ len(eng'[r]) = len(eng[r])
                 /\ \A s \in DOMAIN eng \ {r} :
                       /\ SameTextAndStore(merge(eng'[r], eng[s]),
                                           merge(eng[r], eng[s]))
                       /\ SameTextAndStore(merge(eng[s], eng'[r]),
                                           merge(eng[s], eng[r]))]_vars

\* the positions of to_string() that hold graphemes typed by an author
PositionsOf(text, author) == {i \in 1..Len(text) : text[i][1] = author}

Contiguous(S) == \A i, j \in S : \A k \in i..j : k \in S

NodeIdAtPositionIsShown ==
    [][(last'[1] = "get_node_id_at_position" /\ ~panicked'[last'[2].r])
          => LET r == last'[2].r
                 p == last'[2].position
                 gs == graphemes(to_string(eng[r]))
             IN  IF p >= len(eng[r])
                 THEN last'[2].res = Err([err |-> "PositionOutOfBounds",
                                          position |-> p,
                                          length |-> len(eng[r])])
                 ELSE /\ last'[2].res.ok
                      /\ p < Len(gs)
                      /\ last'[2].res.val
                            = NodeId(gs[p + 1][1][1], gs[p + 1][1][2], 0)]_vars

\* C22: in every reachable state length() is the number of extended
\* grapheme clusters of to_string(), also when a grapheme is made of
\* several code points.
LengthCountsGraphemes ==
    \A r \in Live : len(eng[r]) = Len(graphemes(to_string(eng[r])))

\* the component-wise maximum of three counter maps, absent keys counting 0
MaxOfThree(x, y, z) ==
    [k \in DOMAIN x \cup DOMAIN y \cup DOMAIN z |->
        Max(GetOr0(x, k), Max(GetOr0(y, k), GetOr0(z, k)))]

\* what C23 asks of a, b, c: ab is a merged with b, abc is ab merged with c,
\* acb is a merged with c and then with b
OrderFree(a, b, c, ab, abc, acb) ==
    /\ acb = abc
    /\ pn_merge(pn_merge(abc, b), c) = abc
    /\ pn_merge(ab, b) = ab
    /\ abc.positive = MaxOfThree(a.positive, b.positive, c.positive)
    /\ abc.negative = MaxOfThree(a.negative, b.negative, c.negative)
    /\ pn_value(acb) = pn_value(abc)

\* C23: merging the counter states of two other replicas into a replica in
\* any order and any number of times yields the same positive and negative counters, the
\* component-wise maximum, and the same value().
CounterMergeOrderFree ==
    \A r, s, t \in DOMAIN counters :
        (r # s /\ s # t /\ r # t)
            => OrderFree(counters[r], counters[s], counters[t],
                         pn_merge(counters[r], counters[s]),
                         pn_merge(pn_merge(counters[r], counters[s]), counters[t]),
                         pn_merge(pn_merge(counters[r], counters[t]), counters[s]))

\* three counters that differ: r holds an older count of s than s itself,
\* and t has decremented
CounterMergeOrderFreeWitness ==
    \E r, s, t \in DOMAIN counters :
        /\ r # s /\ s # t /\ r # t
        /\ s \in DOMAIN counters[r].positive
        /\ counters[r].positive[s] > 0
        /\ counters[r].positive[s] < counters[s].positive[s]
        /\ counters[t].negative[t] > 0

\* C24: apply_update with a state whose clock is at most the clock stored
\* for that client leaves the stored state of that client as it was; a state
\* with a greater clock, or for a client that is not stored, replaces it.
StaleUpdateIgnored ==
    [][(last'[1] = "apply_update" /\ IsSome(last'[2].arg.state))
          => LET u == last'[2].arg
                 c == u.client_id
             IN  /\ c \in DOMAIN aw'.states
                 /\ IF c \in DOMAIN aw.states /\ u.clock <= aw.states[c].clock
                    THEN aw'.states[c] = aw.states[c]
                    ELSE /\ aw'.states[c].state = Unwrap(u.state)
                         /\ aw'.states[c].clock = u.clock]_vars

\* an update with another state and a clock that is not greater than the
\* stored one has just been applied
StaleUpdateIgnoredWitness ==
    /\ last[1] = "apply_update"
    /\ IsSome(last[2].arg.state)
    /\ last[2].arg.client_id \in DOMAIN aw.states
    /\ last[2].arg.clock <= aw.states[last[2].arg.client_id].clock
    /\ Unwrap(last[2].arg.state) # aw.states[last[2].arg.client_id].state

\* C25 (awareness clock monotonicity): the update that set_local_state or
\* create_leave_update returns carries a clock strictly greater than the
\* clock of every update applied before and than every clock the instance
\* issued before.
AwarenessClockMonotonic ==
    [][(/\ last'[1] \in {"set_local_state", "create_leave_update"}
        /\ IsSome(last'[2].update))
          => LET clock == Unwrap(last'[2].update).clock
             IN  /\ \A c \in awlog.applied : clock > c
                 /\ \A i \in 1..Len(awlog.issued) : clock > awlog.issued[i]]_vars

\* C26: under any interleaving of increment() and update_to_max() calls of
\* several threads, the values increment() has returned are pairwise
\* distinct and the value of the clock never decreases.
ClockThreadSafe ==
    [][/\ shared' >= shared
       /\ \A i, j \in 1..Len(returned') :
             i # j => returned'[i] # returned'[j]]_vars

\* the entries of the first pass of delete(position, length) on e that the
\* second pass splits
SplitsOf(e, position, length) ==
    LET todo == blocks_to_split(e.blocks, SortIds(DOMAIN e.blocks), 0,
                                position, length)
    IN  { todo[i] : i \in { j \in 1..Len(todo) :
                              \/ todo[j].offset_start > 0
                              \/ todo[j].offset_end < BlockLen(todo[j].orig_block) } }

\* the ids of the slices the split of t creates
SliceIds(t) ==
    LET l == BlockLen(t.orig_block)
        s == t.orig_id.clock - l + 1
        c == t.orig_id.client_id
    IN  (IF t.offset_start > 0 THEN {NodeId(c, s + t.offset_start - 1, 0)} ELSE {})
        \cup {NodeId(c, s + t.offset_end - 1, 0)}
        \cup (IF t.offset_end < l THEN {NodeId(c, s + l - 1, 0)} ELSE {})

\* after holds, under the id of clock `clock`, the graphemes from+1..to of
\* the block of t with the origins of that block, and the first of them has
\* the clock it had in the block of t
SliceIs(after, t, clock, from, to, del) ==
    LET id == NodeId(t.orig_id.client_id, clock, 0)
        l == BlockLen(t.orig_block)
    IN  /\ id \in DOMAIN after
        /\ after[id].text = join(SubSeq(graphemes(t.orig_block.text), from + 1, to))
        /\ after[id].left_origin = t.orig_block.left_origin
        /\ after[id].right_origin = t.orig_block.right_origin
        /\ after[id].deleted = del
        /\ StartClock(id, after[id]) = t.orig_id.clock - l + 1 + from

\* the chars the texts of a store hold
CharsIn(blocks) ==
    UNION { {blocks[id].text[i] : i \in 1..Len(blocks[id].text)} :
            id \in DOMAIN blocks }

\* C27: a successful delete that touches the grapheme offsets [a, b) of a
\* block of length l whose first clock is s, with a > 0 or b < l, replaces
\* the block by a left slice under clock s+a-1 iff a > 0, a tombstoned middle
\* slice under clock s+b-1, and a right slice under clock s+l-1 iff b < l,
\* all with the origins of the block; every grapheme keeps its clock and the
\* store covers the same characters as before.
ThreeWaySplit ==
    [][(last'[1] = "delete" /\ last'[2].res.ok)
          => LET r == last'[2].r
                 before == eng[r].blocks
                 after == eng'[r].blocks
                 splits == SplitsOf(eng[r], last'[2].position, last'[2].length)
             IN  /\ \A t \in splits :
                       LET l == BlockLen(t.orig_block)
                           s == t.orig_id.clock - l + 1
                           a == t.offset_start
                           b == t.offset_end
                       IN  /\ a > 0 => SliceIs(after, t, s + a - 1, 0, a, FALSE)
                           /\ SliceIs(after, t, s + b - 1, a, b, TRUE)
                           /\ b < l => SliceIs(after, t, s + l - 1, b, l, FALSE)
                 /\ DOMAIN after = DOMAIN before
                                     \cup UNION { SliceIds(t) : t \in splits }
                 /\ CharsIn(after) = CharsIn(before)]_vars

\* a delete has just cut the middle out of a block of three graphemes, so
\* that a slice is left on both sides
ThreeWaySplitWitness ==
    /\ last[1] = "delete" /\ last[2].res.ok
    /\ last[2].length = 1
    /\ \E id \in DOMAIN eng[last[2].r].blocks :
          LET c == id.client_id
              blocks == eng[last[2].r].blocks
              mid == NodeId(c, id.clock + 1, 0)
              right == NodeId(c, id.clock + 2, 0)
          IN  /\ mid \in DOMAIN blocks /\ right \in DOMAIN blocks
              /\ last[2].res.val = <<mid>>
              /\ ~blocks[id].deleted /\ blocks[mid].deleted /\ ~blocks[right].deleted
              /\ blocks[id].left_origin = blocks[right].left_origin
              /\ BlockLen(blocks[id]) = 1 /\ BlockLen(blocks[right]) = 1

\* the grapheme lengths of the blocks stored under ids, summed
RECURSIVE LenSum(_, _)
LenSum(blocks, ids) ==
    IF ids = <<>> THEN 0
    ELSE (IF Head(ids) \in DOMAIN blocks THEN BlockLen(blocks[Head(ids)]) ELSE 0)
         + LenSum(blocks, Tail(ids))

\* C28: every id in the list a successful delete(position, length) returns
\* is a key of the store whose block is tombstoned after the call, and the
\* grapheme lengths of the returned blocks sum to length.
DeleteReturnsTombstones ==
    [][(last'[1] = "delete" /\ last'[2].res.ok)
          => LET after == eng'[last'[2].r].blocks
                 ids == last'[2].res.val
             IN  /\ \A i \in 1..Len(ids) :
                       ids[i] \in DOMAIN after /\ after[ids[i]].deleted
                 /\ LenSum(after, ids) = last'[2].length]_vars

\* C29: two blocks stored under the same id on different replicas have the
\* same text and the same origins (they may differ in the deleted flag and
\* in the caches), also after one replica has split the block by a partial
\* delete.
SameIdSameBlock ==
    \A r, s \in DOMAIN eng :
        \A id \in DOMAIN eng[r].blocks \cap DOMAIN eng[s].blocks :
            /\ eng[r].blocks[id].text = eng[s].blocks[id].text
            /\ eng[r].blocks[id].left_origin = eng[s].blocks[id].left_origin
            /\ eng[r].blocks[id].right_origin = eng[s].blocks[id].right_origin

\* C30: merge(remote) changes the local store only by adding the remote
\* blocks whose id was absent locally and by tombstoning the local blocks
\* whose remote copy is tombstoned: no block is removed, no local block
\* changes its text or origins, and the remote engine is not modified.
MergeOnlyAddsAndTombstones ==
    [][last'[1] = "merge"
          => LET r == last'[2].r
                 s == last'[2].remote
                 before == eng[r].blocks
                 after == eng'[r].blocks
                 remote == eng[s].blocks
             IN  /\ DOMAIN after = DOMAIN before \cup DOMAIN remote
                 /\ \A id \in DOMAIN before :
                       /\ after[id].text = before[id].text
                       /\ after[id].left_origin = before[id].left_origin
                       /\ after[id].right_origin = before[id].right_origin
                       /\ after[id].deleted =
                             (before[id].deleted
                                \/ (id \in DOMAIN remote /\ remote[id].deleted))
                 /\ \A id \in DOMAIN after \ DOMAIN before :
                       after[id] = remote[id]
                 /\ eng'[s] = eng[s]]_vars

\* replica r has just merged s, and the merge both tombstoned a block r
\* wrote (s had merged it, written next to it and deleted it) and added
\* the block s wrote
MergeOnlyAddsAndTombstonesWitness ==
    /\ last[1] = "merge"
    /\ calls.merge = 2 /\ calls.delete = 1
    /\ LET r == last[2].r
           s == last[2].remote
       IN  \E x, y \in DOMAIN eng[r].blocks :
              /\ x.client_id = r /\ y.client_id = s
              /\ x \in DOMAIN eng[s].blocks
              /\ eng[r].blocks[x].deleted /\ eng[s].blocks[x].deleted
              /\ ~eng[r].blocks[y].deleted
              /\ BlockLen(eng[r].blocks[y]) > 0
              /\ \/ eng[r].blocks[y].left_origin = Some(x)
                 \/ eng[r].blocks[y].right_origin = Some(x)

\* the characters <<client, clock>> covered by the clock ranges of a store
Covered(blocks) ==
    UNION { { <<id.client_id, k>> :
                k \in (id.clock - BlockLen(blocks[id]) + 1)..id.clock } :
            id \in DOMAIN blocks }

\* C31: no insert, delete or merge drops a character from the store: every
\* character covered by the clock range of some block is still covered
\* afterwards, and a tombstoned block stays in the store, tombstoned.
NoCharacterDropped ==
    [][\A r \in DOMAIN eng :
          /\ Covered(eng[r].blocks) \subseteq Covered(eng'[r].blocks)
          /\ \A id \in DOMAIN eng[r].blocks :
                eng[r].blocks[id].deleted
                   => /\ id \in DOMAIN eng'[r].blocks
                      /\ eng'[r].blocks[id].deleted]_vars

\* the character at offset o of the block vis[i], by the clock range of
\* the block
CharAt(blocks, vis, i, o) ==
    NodeId(vis[i].client_id, vis[i].clock - BlockLen(blocks[vis[i]]) + 1 + o, 0)

\* left and right are the origins the claim gives an insert at position p
\* of the document whose visible blocks, in document order, are vis
OriginsFit(blocks, vis, p, left, right) ==
    LET start(i) == LenSum(blocks, SubSeq(vis, 1, i - 1))
        end(i) == start(i) + BlockLen(blocks[vis[i]])
        inside == {i \in 1..Len(vis) : start(i) < p /\ p < end(i)}
        ending == {i \in 1..Len(vis) :
                      BlockLen(blocks[vis[i]]) > 0 /\ end(i) = p}
        starting == {i \in 1..Len(vis) :
                        BlockLen(blocks[vis[i]]) > 0 /\ start(i) = p}
    IN  IF vis = <<>> THEN left = None /\ right = None
        ELSE IF inside # {}
        THEN \E i \in inside :
                /\ left = Some(CharAt(blocks, vis, i, p - start(i) - 1))
                /\ right = Some(CharAt(blocks, vis, i, p - start(i)))
        ELSE /\ IF ending = {} THEN left = None
                ELSE \E i \in ending :
                        left = Some(CharAt(blocks, vis, i,
                                           BlockLen(blocks[vis[i]]) - 1))
             /\ IF starting = {} THEN right = None
                ELSE \E i \in starting : right = Some(CharAt(blocks, vis, i, 0))

\* C32: the block a successful insert at position p stores has no origins
\* when the document was empty; when p lies strictly inside a visible block
\* at offset o, the characters at offsets o-1 and o of that block; when p is
\* on a block boundary, the last character of the visible block that ends
\* at p (none at position 0) and the first character of the visible block
\* that starts at p (none at the end).
OriginSelection ==
    [][(/\ last'[1] = "insert" /\ last'[2].res.ok
        /\ last'[2].position
              <= LenSum(eng[last'[2].r].blocks,
                        get_document_order(eng[last'[2].r].blocks)))
          => OriginsFit(eng[last'[2].r].blocks,
                        get_document_order(eng[last'[2].r].blocks),
                        last'[2].position,
                        eng'[last'[2].r].blocks[last'[2].res.val].left_origin,
                        eng'[last'[2].r].blocks[last'[2].res.val].right_origin)]_vars

\* the nodes reached from the nodes of S by k steps along parent links
RECURSIVE UpSet(_, _, _)
UpSet(tree, S, k) ==
    IF k = 0 THEN S
    ELSE UpSet(tree,
               S \cup { Unwrap(tree[x].parent) :
                          x \in { y \in S \cap DOMAIN tree : IsSome(tree[y].parent) } },
               k - 1)

\* b and the nodes above b in tree
UpFrom(tree, b) == UpSet(tree, {b}, Cardinality(DOMAIN tree) + 1)

\* the partial tree at the time the block id is processed: the nodes of the
\* blocks with a smaller id
PartialTree(tree, id) ==
    [n \in {m \in DOMAIN tree : NodeIdLess(m, id)} |-> tree[n]]

\* the node of id has the parent and the side the rule gives it
RuleHolds(blocks, tree, id) ==
    LET A == OriginBlock(blocks, blocks[id].left_origin)
        B == OriginBlock(blocks, blocks[id].right_origin)
        node == tree[id]
    IN  IF ~IsSome(A) /\ ~IsSome(B) THEN node.parent = None /\ node.side = "Right"
        ELSE IF ~IsSome(B) THEN node.parent = A /\ node.side = "Right"
        ELSE IF ~IsSome(A) THEN node.parent = B /\ node.side = "Left"
        ELSE IF Unwrap(A) \in UpFrom(PartialTree(tree, id), Unwrap(B))
        THEN node.parent = B /\ node.side = "Left"
        ELSE node.parent = A /\ node.side = "Right"

\* no node is above itself
Acyclic(tree) ==
    \A n \in DOMAIN tree :
        IsSome(tree[n].parent) => n \notin UpFrom(tree, Unwrap(tree[n].parent))

TreeFits(blocks, tree) ==
    /\ DOMAIN tree = DOMAIN blocks
    /\ \A id \in DOMAIN blocks : RuleHolds(blocks, tree, id)
    /\ Acyclic(tree)

\* C33: the tree reconstructed from the store of a replica gives every
\* block the parent and side of the rule (no origin block: root, right;
\* only a left one: it, right; only a right one: it, left; both: the right
\* one B, left, if the left one A is B or above B in the tree of the blocks
\* with smaller ids, else A, right), and no block is above itself in it,
\* a block inserted strictly inside another block included.
TreeReconstruction ==
    \A r \in DOMAIN eng :
        TreeFits(eng[r].blocks, reconstruct_fugue_tree(eng[r].blocks))

\* a replica holds a block whose two origins lie in one other block: it was
\* inserted strictly inside that block, and hangs to its left
TreeReconstructionWitness ==
    \E r \in DOMAIN eng : \E id \in DOMAIN eng[r].blocks :
        LET blocks == eng[r].blocks
            A == OriginBlock(blocks, blocks[id].left_origin)
            B == OriginBlock(blocks, blocks[id].right_origin)
        IN  /\ IsSome(A) /\ A = B /\ Unwrap(A) # id
            /\ BlockLen(blocks[id]) > 0
            /\ reconstruct_fugue_tree(blocks)[id] =
                  [parent |-> B, side |-> "Left", deleted |-> FALSE]

\* the nodes from the root down to x; fuel bounds the walk up
RECURSIVE PathTo(_, _, _)
PathTo(tree, x, fuel) ==
    IF fuel = 0 \/ ~IsSome(tree[x].parent) THEN <<x>>
    ELSE Append(PathTo(tree, Unwrap(tree[x].parent), fuel - 1), x)

\* the length of the longest common prefix of two paths
RECURSIVE CommonPrefix(_, _)
CommonPrefix(p, q) ==
    IF p = <<>> \/ q = <<>> \/ Head(p) # Head(q) THEN 0
    ELSE 1 + CommonPrefix(Tail(p), Tail(q))

\* where the in-order traversal of the claim puts x and y (x # y), whose
\* paths from their roots are px and py: left children, the node, right
\* children; roots and siblings of one side by identifier
PathBefore(tree, px, py, k) ==
    IF k = 0 THEN NodeIdLess(px[1], py[1])
    ELSE IF k = Len(px) THEN tree[py[k + 1]].side = "Right"
    ELSE IF k = Len(py) THEN tree[px[k + 1]].side = "Left"
    ELSE IF tree[px[k + 1]].side # tree[py[k + 1]].side
    THEN tree[px[k + 1]].side = "Left"
    ELSE NodeIdLess(px[k + 1], py[k + 1])

Before(tree, x, y) ==
    PathBefore(tree, PathTo(tree, x, Cardinality(DOMAIN tree)),
               PathTo(tree, y, Cardinality(DOMAIN tree)),
               CommonPrefix(PathTo(tree, x, Cardinality(DOMAIN tree)),
                            PathTo(tree, y, Cardinality(DOMAIN tree))))

InOrder(tree, ord) ==
    /\ \A i, j \in 1..Len(ord) : i < j => Before(tree, ord[i], ord[j])
    /\ \A n \in DOMAIN tree :
          (~tree[n].deleted /\ IsSome(tree[n].parent)
             /\ tree[Unwrap(tree[n].parent)].deleted)
            => \E i \in 1..Len(ord) : ord[i] = n

\* C34: the traversal emits the blocks in in-order: for each root in
\* identifier order, the left children sorted by identifier, the node, the
\* right children sorted by identifier. A tombstoned node is not emitted but
\* the blocks below it are: a visible block whose parent is tombstoned is in
\* the document order, where the subtree of its parent lies.
InOrderTraversal ==
    \A r \in DOMAIN eng :
        InOrder(reconstruct_fugue_tree(eng[r].blocks),
                get_document_order(eng[r].blocks))

\* a replica shows a block whose parent is tombstoned, and another block
\* next to it
InOrderTraversalWitness ==
    \E r \in DOMAIN eng : \E n, m \in DOMAIN eng[r].blocks :
        LET blocks == eng[r].blocks
            P == OriginBlock(blocks, blocks[n].left_origin)
        IN  /\ n # m /\ ~blocks[n].deleted /\ ~blocks[m].deleted
            /\ BlockLen(blocks[n]) > 0 /\ BlockLen(blocks[m]) > 0
            /\ IsSome(P) /\ ~IsSome(blocks[n].right_origin)
            /\ blocks[Unwrap(P)].deleted
            /\ Len(get_document_order(blocks)) = 2

\* ord lists every visible block of the store once, and nothing else
ListsVisibleOnce(blocks, ord) ==
    /\ \A i \in 1..Len(ord) : ord[i] \in DOMAIN blocks /\ ~blocks[ord[i]].deleted
    /\ \A id \in DOMAIN blocks :
          ~blocks[id].deleted => \E i \in 1..Len(ord) : ord[i] = id
    /\ \A i, j \in 1..Len(ord) : i # j => ord[i] # ord[j]

\* C35: in every reachable state get_document_order() contains every
\* block id of the store that is not deleted exactly once, and no deleted
\* or absent id.
DocumentOrderComplete ==
    \A r \in DOMAIN eng :
        ListsVisibleOnce(eng[r].blocks, get_document_order(eng[r].blocks))

\* a replica that has merged holds two visible blocks without origins (two
\* roots) and a tombstoned block
DocumentOrderCompleteWitness ==
    \E r \in DOMAIN eng :
        /\ merged[r] # {}
        /\ \E x, y, z \in DOMAIN eng[r].blocks :
              LET blocks == eng[r].blocks
              IN  /\ x # y
                  /\ ~blocks[x].deleted /\ ~blocks[y].deleted /\ blocks[z].deleted
                  /\ BlockLen(blocks[x]) > 0 /\ BlockLen(blocks[y]) > 0
                  /\ blocks[x].left_origin = None /\ blocks[x].right_origin = None
                  /\ blocks[y].left_origin = None /\ blocks[y].right_origin = None

\* the cached start positions of the blocks of ids, from current_pos on,
\* are the running sums of the grapheme lengths
RECURSIVE StartsFrom(_, _, _)
StartsFrom(blocks, ids, current_pos) ==
    IF ids = <<>> THEN TRUE
    ELSE /\ blocks[Head(ids)].cached_start_pos = current_pos
         /\ StartsFrom(blocks, Tail(ids),
                       current_pos + BlockLen(blocks[Head(ids)]))

\* the position cache of e reflects the store of e
CacheReflectsStore(e) ==
    /\ e.cached_blocks = get_document_order(e.blocks)
    /\ StartsFrom(e.blocks, e.cached_blocks, 0)

CacheValidOrFlagged ==
    \A r \in DOMAIN eng : eng[r].cache_valid => CacheReflectsStore(eng[r])

\* the last call was one of those that leave cache_valid false (a
\* successful insert, a delete that returned tombstoned ids, a merge, a
\* deserialization) and has left it false
Invalidated ==
    /\ (last[1] = "insert" /\ last[2].res.ok)
          => ~eng[last[2].r].cache_valid
    /\ (last[1] = "delete" /\ last[2].res.ok /\ last[2].res.val # <<>>)
          => ~eng[last[2].r].cache_valid
    /\ last[1] \in {"merge", "reload"} => ~eng[last[2].r].cache_valid

\* C36: in every reachable state where cache_valid is true, cached_blocks
\* is the document-order list of the blocks of the store that are not
\* deleted and the cached start position of each listed block is the sum
\* of the grapheme lengths of the blocks listed before it; every successful
\* insert, every delete that tombstones something, every merge and every
\* deserialization leaves cache_valid false.
CacheValidity == CacheValidOrFlagged /\ Invalidated

\* a host has just taken an anchor on a replica that holds a tombstone and
\* two visible blocks: the cache was rebuilt and is valid
CacheValidityWitness ==
    /\ last[1] = "get_node_id_at_position" /\ last[2].res.ok
    /\ eng[last[2].r].cache_valid
    /\ Len(eng[last[2].r].cached_blocks) = 2
    /\ eng[last[2].r].blocks[eng[last[2].r].cached_blocks[2]].cached_start_pos > 0
    /\ \E id \in DOMAIN eng[last[2].r].blocks : eng[last[2].r].blocks[id].deleted

\* the position of the identifier a successful get_node_id_at_position
\* returned (out), asked of the engine that call left
PositionOfAnchor(out) ==
    IF out.res.ok THEN get_position_of_node_id(out.e, out.res.val).res ELSE None

\* C37: in every reachable state and for every p with 0 <= p < length(),
\* get_position_of_node_id(get_node_id_at_position(p)) returns p.
AnchorRoundTrip ==
    \A r \in DOMAIN eng :
        ~panicked[r]
           => \A p \in 0..(len(eng[r]) - 1) :
                 PositionOfAnchor(get_node_id_at_position(eng[r], p)) = Some(p)

\* C38: a successful insert adds exactly one new entry to the block store
\* and leaves every block stored before (id, text, origins, deleted flag)
\* as it was, whatever the text, the empty string included.
InsertAddsOneBlock ==
    [][(last'[1] = "insert" /\ last'[2].res.ok)
          => LET before == Store(eng[last'[2].r])
                 after == Store(eng'[last'[2].r])
             IN  /\ DOMAIN before \subseteq DOMAIN after
                 /\ Cardinality(DOMAIN after \ DOMAIN before) = 1
                 /\ \A id \in DOMAIN before : after[id] = before[id]]_vars

\* the largest id.clock among the blocks of a store, 0 for the empty store
MaxBlockClock(blocks) ==
    IF DOMAIN blocks = {} THEN 0
    ELSE CHOOSE c \in {id.clock : id \in DOMAIN blocks} :
            \A id \in DOMAIN blocks : id.clock <= c

LamportClockLaws ==
    [][/\ last'[1] = "tick"
          => /\ lamport'.value = lamport.value + 1
             /\ ~last'[2].panic /\ last'[2].ret = lamport'.value
       /\ last'[1] = "tick_by"
          => /\ lamport'.value = lamport.value + last'[2].arg
             /\ ~last'[2].panic /\ last'[2].ret = lamport'.value
       /\ last'[1] = "update"
          => lamport'.value = Max(lamport.value, last'[2].arg)
       /\ lamport'.value >= lamport.value]_vars
====
